---- MODULE Spec2Model ----
(***************************************************************************)
(* Model of kadesh: a file system monitor that routes debounced            *)
(* notification events to the configured watches, filters them, selects    *)
(* an action and executes its command for every path of the event.         *)
(*                                                                         *)
(* Text (String, &str, Path) is a sequence of one-character strings, so    *)
(* that case folding, trimming, substring search, placeholder replacement  *)
(* and the split of a path into components are computed, not assumed.      *)
(***************************************************************************)
EXTENDS Integers, Sequences, FiniteSets, TLC

\* ------------------------------------------------------------------ text

None == "None"

\* Option<HashSet<String>>: None is NoSet, Some(s) is Some(s).
NoSet == [some |-> FALSE, set |-> {}]

Some(s) == [some |-> TRUE, set |-> s]

\* One byte that is not valid UTF-8: a path holding it has no text form.
BadByte == "0xFF"

Range(s) == {s[i] : i \in 1..Len(s)}

Lowers == <<"a","b","c","d","e","f","g","h","i","j","k","l","m",
            "n","o","p","q","r","s","t","u","v","w","x","y","z">>

Uppers == <<"A","B","C","D","E","F","G","H","I","J","K","L","M",
            "N","O","P","Q","R","S","T","U","V","W","X","Y","Z">>

\* char::to_lowercase on the letters of the model's alphabet.
ToLowerChar(c) ==
    IF \E i \in 1..Len(Uppers) : Uppers[i] = c
    THEN Lowers[CHOOSE i \in 1..Len(Uppers) : Uppers[i] = c]
    ELSE c

\* str::to_lowercase
to_lowercase(s) == [i \in 1..Len(s) |-> ToLowerChar(s[i])]

IsWhite(c) == c \in {" ", "\t", "\n"}

RECURSIVE TrimStart(_)
TrimStart(s) ==
    IF s = <<>> THEN <<>>
    ELSE IF IsWhite(Head(s)) THEN TrimStart(Tail(s)) ELSE s

RECURSIVE TrimEnd(_)
TrimEnd(s) ==
    IF s = <<>> THEN <<>>
    ELSE IF IsWhite(s[Len(s)]) THEN TrimEnd(SubSeq(s, 1, Len(s) - 1)) ELSE s

\* str::trim
trim(s) == TrimEnd(TrimStart(s))

\* Whether pat occurs in s at index i.
OccursAt(s, pat, i) ==
    /\ i + Len(pat) - 1 <= Len(s)
    /\ \A j \in 1..Len(pat) : s[i + j - 1] = pat[j]

\* str::contains
contains(s, pat) == \E i \in 1..(Len(s) + 1) : OccursAt(s, pat, i)

Placeholder == <<"{", "}">>

\* str::replace(from, to): every non-overlapping occurrence, left to right;
\* the text put in is not scanned again.
RECURSIVE ReplaceFirstOnly(_, _, _)
ReplaceFirstOnly(s, from, to) ==
    IF s = <<>> THEN <<>>
    ELSE IF OccursAt(s, from, 1)
         THEN to \o SubSeq(s, Len(from) + 1, Len(s))
         ELSE <<Head(s)>> \o ReplaceFirstOnly(Tail(s), from, to)

RECURSIVE replace(_, _, _)
replace(s, from, to) ==
    IF s = <<>> THEN <<>>
    ELSE IF OccursAt(s, from, 1)
         THEN to \o replace(SubSeq(s, Len(from) + 1, Len(s)), from, to)
         ELSE <<Head(s)>> \o replace(Tail(s), from, to)

\* ----------------------------------------------------------------- paths

\* Path::to_str: the text of a path, None when it is not valid UTF-8.
to_str(p) == IF BadByte \in Range(p) THEN None ELSE p

\* The pieces of p between separators, empty pieces included.
RECURSIVE SplitSlash(_, _)
SplitSlash(p, cur) ==
    IF p = <<>> THEN <<cur>>
    ELSE IF Head(p) = "/" THEN <<cur>> \o SplitSlash(Tail(p), <<>>)
         ELSE SplitSlash(Tail(p), Append(cur, Head(p)))

RootDir == <<"/">>
CurDir == <<".">>
ParentDir == <<".", ".">>

\* Path::components: the root (when the path is absolute) and then the
\* non-empty pieces; repeated and trailing separators are dropped and so
\* is every "." piece except a leading one of a relative path.
components(p) ==
    LET abs == p # <<>> /\ p[1] = "/"
        raw == SplitSlash(p, <<>>)
        first == CHOOSE i \in 1..(Len(raw) + 1) :
                    /\ i = Len(raw) + 1 \/ raw[i] # <<>>
                    /\ \A j \in 1..(i - 1) : raw[j] = <<>>
        KeepPiece(i) == /\ raw[i] # <<>>
                        /\ raw[i] = CurDir => (~abs /\ i = first)
        F[i \in 0..Len(raw)] ==
            IF i = 0 THEN <<>>
            ELSE IF KeepPiece(i) THEN Append(F[i - 1], raw[i]) ELSE F[i - 1]
        body == F[Len(raw)]
    IN IF abs THEN <<RootDir>> \o body ELSE body

IsPrefixSeq(a, b) == Len(a) <= Len(b) /\ \A i \in 1..Len(a) : a[i] = b[i]

\* A plausible slip: the prefix taken on the text, not on the components.
starts_with_text(p, base) == IsPrefixSeq(base, p)

\* Path::starts_with: base's components are a prefix of p's.
starts_with(p, base) == IsPrefixSeq(components(base), components(p))

\* Path::file_name: the last component when it is a normal one.
file_name(p) ==
    LET c == components(p)
    IN IF c = <<>> THEN None
       ELSE IF c[Len(c)] \in {RootDir, ParentDir}
                 \/ (c[Len(c)] = CurDir) THEN None
            ELSE c[Len(c)]

\* Path::extension: the text after the last "." of the file name; None when
\* the name has no ".", or only a leading one.
extension(p) ==
    LET f == file_name(p)
    IN IF f = None THEN None
       ELSE IF "." \notin Range(f) THEN None
       ELSE LET d == CHOOSE i \in 1..Len(f) :
                        f[i] = "." /\ \A j \in (i + 1)..Len(f) : f[j] # "."
            IN IF d = 1 THEN None ELSE SubSeq(f, d + 1, Len(f))

\* ----------------------------------------------------------------- names

\* The names the configuration may use for event kinds, as text.
N_any == <<"a","n","y">>

N_access == <<"a","c","c","e","s","s">>

N_create == <<"c","r","e","a","t","e">>

N_modify == <<"m","o","d","i","f","y">>

N_write == <<"w","r","i","t","e">>

N_remove == <<"r","e","m","o","v","e">>

N_content_change == <<"c","o","n","t","e","n","t","_","c","h","a","n","g","e">>

N_rename_to == <<"r","e","n","a","m","e","_","t","o">>

N_rename_from == <<"r","e","n","a","m","e","_","f","r","o","m">>

N_create_file == <<"c","r","e","a","t","e","_","f","i","l","e">>

N_create_folder == <<"c","r","e","a","t","e","_","f","o","l","d","e","r">>

N_remove_file == <<"r","e","m","o","v","e","_","f","i","l","e">>

N_remove_folder == <<"r","e","m","o","v","e","_","f","o","l","d","e","r">>

CoarseNames == {N_access, N_create, N_modify, N_write, N_remove}

FineNames == {N_content_change, N_rename_to, N_rename_from, N_create_file,
              N_create_folder, N_remove_file, N_remove_folder}

\* ----------------------------------------------------------- event kinds

\* notify::EventKind, as [cat, sub]: the category and the variant in it.
Kind(c, s) == [cat |-> c, sub |-> s]

K_Any == Kind("Any", "-")
K_AccessOpen == Kind("Access", "Open")
K_CreateAny == Kind("Create", "Any")
K_CreateFile == Kind("Create", "File")
K_CreateFolder == Kind("Create", "Folder")
K_ModifyAny == Kind("Modify", "Any")
K_ModifyContent == Kind("Modify", "Data(Content)")
K_ModifySize == Kind("Modify", "Data(Size)")
K_ModifyMetadata == Kind("Modify", "Metadata(Any)")
K_RenameTo == Kind("Modify", "Name(To)")
K_RenameFrom == Kind("Modify", "Name(From)")
K_RenameBoth == Kind("Modify", "Name(Both)")
K_RemoveAny == Kind("Remove", "Any")
K_RemoveFile == Kind("Remove", "File")
K_RemoveFolder == Kind("Remove", "Folder")
K_Other == Kind("Other", "-")

EventKinds == {K_Any, K_AccessOpen, K_CreateAny, K_CreateFile, K_CreateFolder,
               K_ModifyAny, K_ModifyContent, K_ModifySize, K_ModifyMetadata,
               K_RenameTo, K_RenameFrom, K_RenameBoth,
               K_RemoveAny, K_RemoveFile, K_RemoveFolder, K_Other}

is_access(kind) == kind.cat = "Access"
is_create(kind) == kind.cat = "Create"
is_modify(kind) == kind.cat = "Modify"
is_remove(kind) == kind.cat = "Remove"

\* The fine-grained arm of event_kind_matches: the concrete variant, guarded
\* by a comparison of the name as written with the name of the variant.
FineKindMatches(kind, name) ==
    \/ kind = K_ModifyContent /\ name = N_content_change
    \/ kind = K_RenameTo /\ name = N_rename_to
    \/ kind = K_RenameFrom /\ name = N_rename_from
    \/ kind = K_CreateFile /\ name = N_create_file
    \/ kind = K_CreateFolder /\ name = N_create_folder
    \/ kind = K_RemoveFile /\ name = N_remove_file
    \/ kind = K_RemoveFolder /\ name = N_remove_folder

\* config.rs event_kind_matches: the coarse names are matched on the
\* lower-cased name, the fine-grained ones on kind_str as it was written.
event_kind_matches(kind, kind_str) ==
    LET lower == to_lowercase(kind_str)
    IN IF lower = N_access THEN is_access(kind)
       ELSE IF lower = N_create THEN is_create(kind)
       ELSE IF lower \in {N_modify, N_write} THEN is_modify(kind) \/ is_access(kind)
       ELSE IF lower = N_remove THEN is_remove(kind)
       ELSE FineKindMatches(kind, kind_str)

\* event_kind_to_primary_string: the canonical label of a concrete variant,
\* None for a variant that has none.
event_kind_to_primary_string(kind) ==
    IF kind = K_ModifyContent THEN N_content_change
    ELSE IF kind = K_RenameTo THEN N_rename_to
    ELSE IF kind = K_RenameFrom THEN N_rename_from
    ELSE IF kind = K_CreateFile THEN N_create_file
    ELSE IF kind = K_CreateFolder THEN N_create_folder
    ELSE IF kind = K_RemoveFile THEN N_remove_file
    ELSE IF kind = K_RemoveFolder THEN N_remove_folder
    ELSE None

\* --------------------------------------------------------------- filters

\* config.rs path_matches_pattern: substring containment on the text of the
\* path; a path with no text form matches no pattern.
path_matches_pattern(path, pattern) ==
    IF to_str(path) = None THEN FALSE ELSE contains(to_str(path), pattern)

AnyPattern(patterns, path) ==
    \E i \in 1..Len(patterns) : path_matches_pattern(path, patterns[i])

\* path.extension().and_then(|os| os.to_str())
ExtensionText(path) ==
    IF extension(path) = None THEN None ELSE to_str(extension(path))

\* A plausible slip: a path without an extension passes the extension check.
ExtensionCheckLenient(exts, path) ==
    IF ExtensionText(path) # None
    THEN (<<".">> \o ExtensionText(path)) \in exts.set
    ELSE TRUE

\* Filters::matches, lines 111-126: the extension check of one path.
ExtensionCheck(exts, path) ==
    IF ExtensionText(path) # None
    THEN (<<".">> \o ExtensionText(path)) \in exts.set
    ELSE FALSE

\* A plausible slip: the ignore patterns are consulted for the first path only.
IgnoreCheckFirstOnly(f, paths, i) ==
    i = 1 /\ AnyPattern(f.ignore_patterns, paths[i])

\* Filters::matches, lines 103-110: whether path i is ignored.
IgnoreCheck(f, paths, i) == AnyPattern(f.ignore_patterns, paths[i])

\* Filters::matches, lines 102-129: the loop over the paths from index i on,
\* returning at the first path that is ignored or fails the extension check.
RECURSIVE MatchesPathsFrom(_, _, _)
MatchesPathsFrom(f, paths, i) ==
    IF i > Len(paths) THEN TRUE
    ELSE IF IgnoreCheck(f, paths, i) THEN FALSE
    ELSE IF f.extensions.some /\ ~ExtensionCheck(f.extensions, paths[i]) THEN FALSE
    ELSE MatchesPathsFrom(f, paths, i + 1)

\* Filters::matches, lines 96-100: the kind check.
KindCheck(f, kind) ==
    f.event_kinds.some =>
        \E k \in f.event_kinds.set : event_kind_matches(kind, k)

\* Filters::matches
matches(f, event) ==
    IF ~KindCheck(f, event.kind) THEN FALSE
    ELSE MatchesPathsFrom(f, event.paths, 1)

Filters(k, e, i) == [event_kinds |-> k, extensions |-> e, ignore_patterns |-> i]

NoFilter == Filters(NoSet, NoSet, <<>>)

Event(k, p) == [kind |-> k, paths |-> p]

\* ------------------------------------------------------------ the inputs

\* Paths and command templates of the scenarios, as text.
P_watched == <<"/","t","m","p","/","w","a","t","c","h","e","d">>

P_watched_slash == <<"/","t","m","p","/","w","a","t","c","h","e","d","/">>

P_watched2 == <<"/","t","m","p","/","w","a","t","c","h","e","d","2">>

P_real == <<"/","m","n","t","/","r","e","a","l">>

P_a_txt == <<"/","t","m","p","/","w","a","t","c","h","e","d","/","a",".","t","x","t">>

P_b_log == <<"/","t","m","p","/","w","a","t","c","h","e","d","/","b",".","l","o","g">>

P_sub == <<"/","t","m","p","/","w","a","t","c","h","e","d","/","s","u","b">>

P_deep_log == <<"/","t","m","p","/","w","a","t","c","h","e","d","/","s","u","b","/","d","e","e","p",".","l","o","g">>

P_noext == <<"/","t","m","p","/","w","a","t","c","h","e","d","/","M","a","k","e","f","i","l","e">>

P_hidden == <<"/","t","m","p","/","w","a","t","c","h","e","d","/",".","l","o","g">>

P_foo_log == <<"/","t","m","p","/","w","a","t","c","h","e","d","/","f","o","o",".","l","o","g">>

P_w2_b_log == <<"/","t","m","p","/","w","a","t","c","h","e","d","2","/","b",".","l","o","g">>

P_real_c_log == <<"/","m","n","t","/","r","e","a","l","/","c",".","l","o","g">>

P_a_b_txt == <<"/","a","/","b",".","t","x","t">>

P_a_b_log == <<"/","a","/","b",".","l","o","g">>

P_tmp_x == <<"/","t","m","p","/","x">>

T_touch_done == <<"t","o","u","c","h"," ","{","}",".","d","o","n","e">>

T_echo == <<"e","c","h","o"," ","{","}">>

T_cp == <<"c","p"," ","{","}"," ","{","}",".","b","a","k">>

T_blank == <<" "," ">>

T_only == <<" ","{","}"," ">>

T_plain == <<"s","y","n","c">>

C_touch_a_txt_done == <<"t","o","u","c","h"," ","/","t","m","p","/","w","a","t","c","h","e","d","/","a",".","t","x","t",".","d","o","n","e">>

C_echo_tmp_x == <<"e","c","h","o"," ","/","t","m","p","/","x">>

X_log == <<".","l","o","g">>

X_txt == <<".","t","x","t">>

I_foo == <<"f","o","o">>

I_sub == <<"s","u","b","/">>

T_empty == <<>>

\* A file under /tmp/watched whose name is not valid UTF-8, and one whose
\* name holds the bytes of "foo" next to such a byte.
P_bad == P_watched \o <<"/", "x", BadByte>>

P_bad_foo == P_watched \o <<"/", "f", "o", "o", BadByte, ".", "l", "o", "g">>

\* A selector spelled with capitals: the configuration may write it so.
N_Create_File == <<"C","r","e","a","t","e","_","F","i","l","e">>

N_ANY == <<"A","N","Y">>

WatchConfig(p, r, a, f) == [path |-> p, recursive |-> r, actions |-> a, filter |-> f]

Action(e, c) == [event |-> e, command |-> c]

\* What the environment answers for a watch's path: the text shellexpand::full
\* gives ("Err" when the expansion fails) and the path canonicalize gives
\* (None when it fails, as for a path that does not exist), and whether the
\* watcher accepts the path ("ok") or refuses it ("err").
Env(e, c, w) == [expanded |-> e, canon |-> c, watch |-> w]

Err == "Err"

\* The scenario of the specification: one non-recursive watch.
S_touch ==
    [config |-> << WatchConfig(P_watched, FALSE,
                               <<Action(N_any, T_touch_done)>>, NoFilter) >>,
     fs |-> << Env(P_watched, P_watched, "ok") >>]

\* Two watches whose roots share a text prefix; the first is written with a
\* trailing separator, the second does not exist yet.
S_first ==
    [config |-> << WatchConfig(P_watched_slash, TRUE,
                               <<Action(N_Create_File, T_echo),
                                 Action(N_any, T_touch_done)>>, NoFilter),
                   WatchConfig(P_watched2, FALSE,
                               <<Action(N_remove_file, T_plain),
                                 Action(N_ANY, T_cp)>>, NoFilter) >>,
     fs |-> << Env(P_watched_slash, P_watched, "ok"), Env(P_watched2, None, "ok") >>]

\* Actions with empty commands ahead of others, an extension filter, a watch
\* behind a symbolic link, a watch whose path fails to expand and a second
\* watch on the same root.
S_empty ==
    [config |-> << WatchConfig(P_watched, FALSE,
                               <<Action(N_create_file, T_blank),
                                 Action(N_ANY, T_empty),
                                 Action(N_any, T_echo),
                                 Action(N_any, T_plain)>>,
                               Filters(NoSet, Some({X_log, X_txt}), <<I_foo>>)),
                   WatchConfig(P_watched2, TRUE,
                               <<Action(N_any, T_echo)>>, NoFilter),
                   WatchConfig(P_watched2, TRUE,
                               <<Action(N_any, T_echo)>>, NoFilter),
                   WatchConfig(P_watched, TRUE,
                               <<Action(N_rename_to, T_plain),
                                 Action(N_create_file, T_blank)>>,
                               Filters(Some({N_create}), NoSet, <<>>)) >>,
     fs |-> << Env(P_watched, P_watched, "ok"), Env(P_watched2, P_real, "ok"),
               Env(Err, None, "ok"), Env(P_watched, P_watched, "ok") >>]

\* A watch on a directory that did not exist at startup, so that the
\* watcher refused it, below the root of two recursive watches; the first
\* of these keeps .txt files only.
S_nested ==
    [config |-> << WatchConfig(P_watched, TRUE,
                               <<Action(N_any, T_echo)>>,
                               Filters(NoSet, Some({X_txt}), <<>>)),
                   WatchConfig(P_sub, FALSE,
                               <<Action(N_any, T_plain)>>, NoFilter),
                   WatchConfig(P_watched, TRUE,
                               <<Action(N_any, T_touch_done)>>, NoFilter) >>,
     fs |-> << Env(P_watched, P_watched, "ok"), Env(P_sub, None, "err"),
               Env(P_watched, P_watched, "ok") >>]

Scenarios == {S_touch, S_first, S_empty, S_nested}

E_create_a == Event(K_CreateFile, <<P_a_txt>>)
E_create_w2 == Event(K_CreateFile, <<P_w2_b_log>>)
E_rename == Event(K_RenameBoth, <<P_a_txt, P_b_log>>)
E_bad == Event(K_CreateFile, <<P_b_log, P_bad>>)
E_deep == Event(K_ModifyContent, <<P_deep_log>>)
E_root == Event(K_Any, <<P_watched>>)
E_real == Event(K_RemoveFile, <<P_real_c_log>>)
E_both == Event(K_CreateFile, <<P_w2_b_log, P_a_txt>>)
E_nopath == Event(K_Other, <<>>)
E_noext == Event(K_CreateFolder, <<P_noext>>)
E_foo == Event(K_CreateFile, <<P_foo_log>>)

Events == {E_create_a, E_create_w2, E_rename, E_bad, E_deep, E_root, E_real,
           E_both, E_nopath, E_noext, E_foo}

\* DebounceEventResult: Ok(events) or Err(errors).
OkBatch(evs) == [ok |-> TRUE, events |-> evs, errors |-> <<>>]

ErrBatch(errs) == [ok |-> FALSE, events |-> <<>>, errors |-> errs]

B_err == ErrBatch(<<"device busy">>)

Batches == {B_err, OkBatch(<<E_bad>>)}

\* How many times the debouncer calls back in one run of the model.
MaxBatches == 2

\* mpsc::channel::<DebounceEventResult>(100)
ChannelCapacity == 100

VARIABLES
    config,     \* Config.watches, read-only after load_config
    fs,         \* what the file system answers for each watch's path
    event_tx,   \* the sender the debouncer's callback owns: "held", "dropped"
    nCallbacks, \* how many times the debouncer has called back
    senders,    \* the spawned tasks that wait in tx.send(result)
    chan,       \* the batches in the channel
    loopPc,     \* event_processor: "recv" or "finished"
    mainPc,     \* main: "select", "stopping", "dropped", "exited"
    tasks,      \* the process_event tasks spawned, in spawn order
    execs,      \* the execute_action tasks spawned, in spawn order
    routed,     \* <<task, watch>> pairs process_event found relevant
    recvLog,    \* the batches the loop received, in order, each with its id
    call,       \* the arguments of a call of a pure function
    ret         \* its result

vars == <<config, fs, event_tx, nCallbacks, senders, chan, loopPc, mainPc, tasks, execs,
          routed, recvLog, call, ret>>

\* ---------------------------------------------------------- process_event

\* WatchConfig::expanded_absolute_path: the canonical path, the expanded
\* path as it is when canonicalize fails, Err when the expansion fails.
expanded_absolute_path(w) ==
    IF fs[w].expanded = Err THEN Err
    ELSE IF fs[w].canon # None THEN fs[w].canon
    ELSE fs[w].expanded

\* setup_watch, lines 138-159: the path when the expansion succeeds and the
\* watcher accepts the path, Err otherwise.
setup_watch(w) ==
    IF expanded_absolute_path(w) = Err THEN Err
    ELSE IF fs[w].watch = "err" THEN Err
    ELSE expanded_absolute_path(w)

\* setup_watch, lines 148-152: a recursive watch covers what lies below its
\* root at any depth, another one the root and its entries.
Covers(w, path) ==
    LET root == setup_watch(w)
    IN /\ root # Err
       /\ starts_with(path, root)
       /\ \/ config[w].recursive /\ fs[w].canon # None
          \/ Len(components(path)) <= Len(components(root)) + 1

\* main, lines 77-90: the watches whose setup succeeded; the others are
\* logged and passed over.
Registered == {w \in 1..Len(config) : setup_watch(w) # Err}

\* An event the watcher can report: it has a path some registered watch
\* covers.
Delivered(event) ==
    \E w \in Registered : \E i \in 1..Len(event.paths) :
        Covers(w, event.paths[i])

\* process_event, lines 166-172
is_relevant(event, w) ==
    \E i \in 1..Len(event.paths) :
        /\ expanded_absolute_path(w) # Err
        /\ starts_with(event.paths[i], expanded_absolute_path(w))

\* process_event, lines 186-195: whether an action's selector matches.
SelectorMatches(action, primary_kind_str) ==
    LET action_event_str == to_lowercase(action.event)
    IN \/ action_event_str = N_any
       \/ primary_kind_str # None /\ action_event_str = primary_kind_str

\* A plausible slip: the last matching action wins.
RECURSIVE SelectActionLast(_, _, _)
SelectActionLast(actions, primary, i) ==
    IF i > Len(actions) THEN 0
    ELSE LET later == SelectActionLast(actions, primary, i + 1)
         IN IF later # 0 THEN later
            ELSE IF SelectorMatches(actions[i], primary)
                    /\ trim(actions[i].command) # <<>> THEN i
            ELSE 0

\* A plausible slip: break, not continue, at a matched action whose command
\* is empty.
RECURSIVE SelectActionStop(_, _, _)
SelectActionStop(actions, primary, i) ==
    IF i > Len(actions) THEN 0
    ELSE IF SelectorMatches(actions[i], primary)
         THEN (IF trim(actions[i].command) = <<>> THEN 0 ELSE i)
         ELSE SelectActionStop(actions, primary, i + 1)

\* process_event, lines 185-213: the scan of the actions from index i on.
\* A matched action whose command is empty is skipped (continue); the first
\* matched action with a command ends the scan (break). 0: none.
RECURSIVE SelectAction(_, _, _)
SelectAction(actions, primary, i) ==
    IF i > Len(actions) THEN 0
    ELSE IF SelectorMatches(actions[i], primary)
         THEN (IF trim(actions[i].command) = <<>>
               THEN SelectAction(actions, primary, i + 1)
               ELSE i)
         ELSE SelectAction(actions, primary, i + 1)

Exec(t, w, a, pi, cmd, p) ==
    [t |-> t, w |-> w, a |-> a, pi |-> pi, command_template |-> cmd, path |-> p,
     st |-> "queued", err |-> None, command |-> <<>>, spawns |-> 0,
     status |-> None]

\* A plausible slip: only the first path of the event is dispatched.
DispatchFirstPath(t, w, a, event) ==
    IF event.paths = <<>> THEN <<>>
    ELSE <<Exec(t, w, a, 1, config[w].actions[a].command, event.paths[1])>>

\* process_event, lines 202-210: one execute_action task for every path.
DispatchPaths(t, w, a, event) ==
    [pi \in 1..Len(event.paths) |->
        Exec(t, w, a, pi, config[w].actions[a].command, event.paths[pi])]

\* process_event, lines 165-214: what one watch dispatches for the event.
WatchDispatches(t, w, event) ==
    IF ~is_relevant(event, w) THEN <<>>
    ELSE IF ~matches(config[w].filter, event) THEN <<>>
    ELSE LET a == SelectAction(config[w].actions,
                               event_kind_to_primary_string(event.kind), 1)
         IN IF a = 0 THEN <<>> ELSE DispatchPaths(t, w, a, event)

\* A plausible slip: break, not continue, at a watch that dispatches
\* nothing for the event.
RECURSIVE DispatchesFromStop(_, _, _)
DispatchesFromStop(t, w, event) ==
    IF w > Len(config) THEN <<>>
    ELSE IF WatchDispatches(t, w, event) = <<>> THEN <<>>
    ELSE WatchDispatches(t, w, event) \o DispatchesFromStop(t, w + 1, event)

\* The watches from w on, in configured order.
RECURSIVE DispatchesFrom(_, _, _)
DispatchesFrom(t, w, event) ==
    IF w > Len(config) THEN <<>>
    ELSE WatchDispatches(t, w, event) \o DispatchesFrom(t, w + 1, event)

\* A plausible slip: the tasks outlive the runtime.
RunningDetached == TRUE

\* The runtime, and with it every spawned task, lives until main returns.
Running == mainPc # "exited"

\* One process_event task runs; it has no suspension point.
ProcessEvent(t) ==
    /\ Running
    /\ ~tasks[t].done
    /\ tasks' = [tasks EXCEPT ![t].done = TRUE]
    /\ execs' = execs \o DispatchesFrom(t, 1, tasks[t].event)
    /\ routed' = routed \cup
                 {<<t, w>> : w \in {x \in 1..Len(config) :
                                        is_relevant(tasks[t].event, x)}}
    /\ UNCHANGED <<config, fs, event_tx, nCallbacks, senders, chan, loopPc, mainPc,
                   recvLog, call, ret>>

\* --------------------------------------------------------- execute_action

\* execute_action, lines 9-20: the command to run, or the error that ends
\* the call before anything is spawned.
Prepare(command_template, path) ==
    IF to_str(path) = None
    THEN [err |-> "PathNonUtf8", command |-> <<>>]
    ELSE LET command_to_run == replace(command_template, Placeholder, to_str(path))
         IN IF trim(command_to_run) = <<>>
            THEN [err |-> "EmptyCommand", command |-> command_to_run]
            ELSE [err |-> None, command |-> command_to_run]

\* A plausible slip: the error of one execution is propagated, and the
\* executions of the same event that have not ended are cancelled with it.
SettlePropagating(i, new) ==
    /\ execs' = [k \in 1..Len(execs) |->
                    IF k = i THEN new
                    ELSE IF /\ new.st = "failed"
                            /\ execs[k].t = new.t
                            /\ execs[k].st \in {"queued", "running"}
                         THEN [execs[k] EXCEPT !.st = "failed", !.err = "Cancelled"]
                         ELSE execs[k]]
    /\ UNCHANGED <<config, fs, event_tx, nCallbacks, senders, chan, loopPc, mainPc, tasks,
                   routed, recvLog, call, ret>>

\* process_event, lines 205-209: the spawned task takes the result of its
\* execute_action; an error is logged there and goes no further.
Settle(i, new) ==
    /\ execs' = [execs EXCEPT ![i] = new]
    /\ UNCHANGED <<config, fs, event_tx, nCallbacks, senders, chan, loopPc, mainPc, tasks,
                   routed, recvLog, call, ret>>

\* execute_action returns PathNonUtf8 or EmptyCommand: nothing is spawned.
ExecFailEarly(i) ==
    /\ Running
    /\ execs[i].st = "queued"
    /\ LET r == Prepare(execs[i].command_template, execs[i].path)
       IN /\ r.err # None
          /\ Settle(i, [execs[i] EXCEPT !.st = "failed", !.err = r.err,
                                        !.command = r.command])

\* execute_action, lines 25-39: sh -c command_to_run is spawned.
ExecSpawnOk(i) ==
    /\ Running
    /\ execs[i].st = "queued"
    /\ LET r == Prepare(execs[i].command_template, execs[i].path)
       IN /\ r.err = None
          /\ Settle(i, [execs[i] EXCEPT !.st = "running", !.command = r.command,
                                        !.spawns = @ + 1])

\* execute_action, lines 39-42: the spawn fails; ActionExec carries the command.
ExecSpawnFail(i) ==
    /\ Running
    /\ execs[i].st = "queued"
    /\ LET r == Prepare(execs[i].command_template, execs[i].path)
       IN /\ r.err = None
          /\ Settle(i, [execs[i] EXCEPT !.st = "failed", !.err = "ActionExec",
                                        !.command = r.command, !.spawns = @ + 1])

\* A plausible slip: the exit status is not looked at.
OutcomeIgnoresStatus(e, status) ==
    [e EXCEPT !.status = status, !.st = "ok"]

\* execute_action, lines 44-61: Ok(()) when output.status.success(), else
\* ActionExec with the command that was run.
Outcome(e, status) ==
    IF status = "success"
    THEN [e EXCEPT !.status = status, !.st = "ok"]
    ELSE [e EXCEPT !.status = status, !.st = "failed", !.err = "ActionExec"]

\* execute_action, lines 44-51: the subprocess ends with a success status.
ExecExitOk(i) ==
    /\ Running
    /\ execs[i].st = "running"
    /\ Settle(i, Outcome(execs[i], "success"))

\* execute_action, lines 52-61: the subprocess ends with another status.
ExecExitFail(i) ==
    /\ Running
    /\ execs[i].st = "running"
    /\ Settle(i, Outcome(execs[i], "failure"))

\* ------------------------------------------------------------------- main

\* main, lines 65-73: the debouncer calls back with a batch; the callback
\* spawns a task that sends it.
DebouncerCallback(b) ==
    /\ Running
    /\ event_tx = "held"
    /\ nCallbacks < MaxBatches
    /\ nCallbacks' = nCallbacks + 1
    /\ senders' = senders \cup {[id |-> nCallbacks + 1, batch |-> b]}
    /\ UNCHANGED <<config, fs, event_tx, chan, loopPc, mainPc, tasks, execs, routed,
                   recvLog, call, ret>>

\* main, line 69: tx.send(result).await completes when the channel has room.
Send(s) ==
    /\ Running
    /\ s \in senders
    /\ Len(chan) < ChannelCapacity
    /\ chan' = Append(chan, s)
    /\ senders' = senders \ {s}
    /\ UNCHANGED <<config, fs, event_tx, nCallbacks, loopPc, mainPc, tasks, execs, routed,
                   recvLog, call, ret>>

Task(ev) == [event |-> ev, done |-> FALSE]

\* A plausible slip: the loop ends at an error batch.
RecvErrStops(b) ==
    /\ ~b.batch.ok
    /\ loopPc' = "finished"
    /\ UNCHANGED tasks

\* main, lines 112-116: an error batch is logged, error by error.
RecvErr(b) ==
    /\ ~b.batch.ok
    /\ UNCHANGED <<loopPc, tasks>>

\* main, lines 103-111: one process_event task is spawned for every event.
RecvOk(b) ==
    /\ b.batch.ok
    /\ tasks' = tasks \o [i \in 1..Len(b.batch.events) |-> Task(b.batch.events[i])]
    /\ UNCHANGED loopPc

\* A plausible slip: the loop joins the tasks and executions of the batches
\* it has taken before it takes the next one.
RecvAfterJoin ==
    /\ Running
    /\ loopPc = "recv"
    /\ chan # <<>>
    /\ \A t \in 1..Len(tasks) : tasks[t].done
    /\ \A i \in 1..Len(execs) : execs[i].st \in {"ok", "failed"}
    /\ chan' = Tail(chan)
    /\ recvLog' = Append(recvLog, Head(chan))
    /\ (RecvOk(Head(chan)) \/ RecvErr(Head(chan)))
    /\ UNCHANGED <<config, fs, event_tx, nCallbacks, senders, mainPc, execs, routed,
                   call, ret>>

\* main, lines 101-118: the loop takes the next batch off the channel.
Recv ==
    /\ Running
    /\ loopPc = "recv"
    /\ chan # <<>>
    /\ chan' = Tail(chan)
    /\ recvLog' = Append(recvLog, Head(chan))
    /\ (RecvOk(Head(chan)) \/ RecvErr(Head(chan)))
    /\ UNCHANGED <<config, fs, event_tx, nCallbacks, senders, mainPc, execs, routed,
                   call, ret>>

\* main, lines 101 and 119: recv() answers None once the channel is empty and
\* every sender is dropped; the loop ends.
LoopFinish ==
    /\ Running
    /\ loopPc = "recv"
    /\ event_tx = "dropped"
    /\ senders = {}
    /\ chan = <<>>
    /\ loopPc' = "finished"
    /\ UNCHANGED <<config, fs, event_tx, nCallbacks, senders, chan, mainPc, tasks, execs,
                   routed, recvLog, call, ret>>

\* main, lines 122-125: select! takes the ctrl_c branch.
CtrlC ==
    /\ mainPc = "select"
    /\ mainPc' = "stopping"
    /\ UNCHANGED <<config, fs, event_tx, nCallbacks, senders, chan, loopPc, tasks, execs,
                   routed, recvLog, call, ret>>

\* main, line 132: drop(debouncer), and with it the sender it holds.
DropDebouncer ==
    /\ mainPc = "stopping"
    /\ mainPc' = "dropped"
    /\ event_tx' = "dropped"
    /\ UNCHANGED <<config, fs, nCallbacks, senders, chan, loopPc, tasks, execs,
                   routed, recvLog, call, ret>>

\* The debouncer's thread ends by itself, and the callback it owns is
\* dropped with the sender moved into it (main, lines 62-64).
SourceClosed ==
    /\ Running
    /\ event_tx = "held"
    /\ event_tx' = "dropped"
    /\ UNCHANGED <<config, fs, nCallbacks, senders, chan, loopPc, mainPc, tasks,
                   execs, routed, recvLog, call, ret>>

\* main, lines 126-129: select! takes the event_processor branch, the loop
\* having ended.
SelectLoopDone ==
    /\ mainPc = "select"
    /\ loopPc = "finished"
    /\ mainPc' = "stopping"
    /\ UNCHANGED <<config, fs, event_tx, nCallbacks, senders, chan, loopPc,
                   tasks, execs, routed, recvLog, call, ret>>

\* A plausible slip: main joins the tasks and executions before it returns.
MainReturnAfterJoin ==
    /\ mainPc = "dropped"
    /\ \A t \in 1..Len(tasks) : tasks[t].done
    /\ \A i \in 1..Len(execs) : execs[i].st \in {"ok", "failed"}
    /\ mainPc' = "exited"
    /\ UNCHANGED <<config, fs, event_tx, nCallbacks, senders, chan, loopPc,
                   tasks, execs, routed, recvLog, call, ret>>

\* main, line 135: main returns; the runtime is dropped and with it every
\* task that has not ended.
MainReturn ==
    /\ mainPc = "dropped"
    /\ mainPc' = "exited"
    /\ UNCHANGED <<config, fs, event_tx, nCallbacks, senders, chan, loopPc, tasks, execs,
                   routed, recvLog, call, ret>>

\* --------------------------------------------------------- specifications

Idle == "idle"

\* The result of a call: none yet, or the value returned.
NoRet == [done |-> FALSE, value |-> FALSE]

Ret(v) == [done |-> TRUE, value |-> v]

\* The program after startup, with the configuration of one scenario.
Init ==
    /\ config = S_touch.config
    /\ fs = S_touch.fs
    /\ event_tx = "held"
    /\ nCallbacks = 0
    /\ senders = {}
    /\ chan = <<>>
    /\ loopPc = "recv"
    /\ mainPc = "select"
    /\ tasks = <<>>
    /\ execs = <<>>
    /\ routed = {}
    /\ recvLog = <<>>
    /\ call = Idle
    /\ ret = NoRet

ExecStep ==
    \E i \in 1..Len(execs) :
        \/ ExecFailEarly(i)
        \/ ExecSpawnOk(i)
        \/ ExecSpawnFail(i)
        \/ ExecExitOk(i)
        \/ ExecExitFail(i)

Next ==
    \/ \E b \in Batches : DebouncerCallback(b)
    \/ \E s \in senders : Send(s)
    \/ Recv
    \/ LoopFinish
    \/ \E t \in 1..Len(tasks) : ProcessEvent(t)
    \/ ExecStep
    \/ CtrlC
    \/ DropDebouncer
    \/ MainReturn

Spec == Init /\ [][Next]_vars


\* The program with a batch source that may close by itself. The runtime
\* polls every task that can go on, main included: the sends, the loop and
\* main's own steps are weakly fair. Nothing makes a subprocess end, the
\* user press Ctrl+C or the debouncer call back.
NextShutdown ==
    \/ DebouncerCallback(OkBatch(<<E_create_a>>))
    \/ \E s \in senders : Send(s)
    \/ Recv
    \/ LoopFinish
    \/ \E t \in 1..Len(tasks) : ProcessEvent(t)
    \/ ExecStep
    \/ CtrlC
    \/ SourceClosed
    \/ SelectLoopDone
    \/ DropDebouncer
    \/ MainReturn

Fairness ==
    /\ WF_vars(\E s \in senders : Send(s))
    /\ WF_vars(Recv)
    /\ WF_vars(LoopFinish)
    /\ WF_vars(SelectLoopDone)
    /\ WF_vars(DropDebouncer)
    /\ WF_vars(MainReturn)

SpecShutdown == Init /\ [][NextShutdown]_vars /\ Fairness

\* The channel one batch short of its capacity: the debouncer has reported
\* errors again and again and every send has completed, while the loop has
\* not been scheduled. These batches are numbered below the callbacks that
\* follow.
Backlog ==
    [k \in 1..(ChannelCapacity - 1) |->
        [id |-> k - ChannelCapacity, batch |-> B_err]]

\* The program with a channel that is about to fill up.
InitChannel ==
    /\ config = S_touch.config
    /\ fs = S_touch.fs
    /\ event_tx = "held"
    /\ nCallbacks = 0
    /\ senders = {}
    /\ chan = Backlog
    /\ loopPc = "recv"
    /\ mainPc = "select"
    /\ tasks = <<>>
    /\ execs = <<>>
    /\ routed = {}
    /\ recvLog = <<>>
    /\ call = Idle
    /\ ret = NoRet

NextChannel ==
    \/ DebouncerCallback(B_err)
    \/ \E s \in senders : Send(s)
    \/ Recv
    \/ LoopFinish
    \/ CtrlC
    \/ DropDebouncer
    \/ MainReturn

SpecChannel == InitChannel /\ [][NextChannel]_vars

\* One event goes through process_event and the executions it dispatches:
\* the configuration, the file system and the event are drawn from the
\* scenarios.
InitDispatch ==
    /\ \E s \in Scenarios : config = s.config /\ fs = s.fs
    /\ event_tx = "held"
    /\ \E e \in Events : tasks = <<Task(e)>>
    /\ nCallbacks = 0
    /\ senders = {}
    /\ chan = <<>>
    /\ loopPc = "recv"
    /\ mainPc = "select"
    /\ execs = <<>>
    /\ routed = {}
    /\ recvLog = <<>>
    /\ call = Idle
    /\ ret = NoRet

NextDispatch ==
    \/ \E t \in 1..Len(tasks) : ProcessEvent(t)
    \/ ExecStep

SpecDispatch == InitDispatch /\ [][NextDispatch]_vars

\* The command templates and paths execute_action is called with.
T_twice == <<"{", "}", "{", "}">>

T_nested == <<"{", "{", "}", "}">>

P_braces == <<"/", "t", "m", "p", "/", "{", "}">>

P_empty == <<>>

Templates == {T_echo, T_touch_done, T_cp, T_blank, T_empty, T_only, T_plain,
              T_twice, T_nested, Placeholder}

ExecPaths == {P_tmp_x, P_a_txt, P_bad, P_braces, P_empty}

\* One call of execute_action, its template and path drawn from the sets.
InitExec ==
    /\ \E c \in Templates : \E p \in ExecPaths : execs = <<Exec(1, 1, 1, 1, c, p)>>
    /\ config = <<>>
    /\ fs = <<>>
    /\ event_tx = "held"
    /\ tasks = <<>>
    /\ nCallbacks = 0
    /\ senders = {}
    /\ chan = <<>>
    /\ loopPc = "recv"
    /\ mainPc = "select"
    /\ routed = {}
    /\ recvLog = <<>>
    /\ call = Idle
    /\ ret = NoRet

SpecExec == InitExec /\ [][ExecStep]_vars

\* ------------------------------------------- the filter as a pure function

ToUpperChar(c) ==
    IF \E i \in 1..Len(Lowers) : Lowers[i] = c
    THEN Uppers[CHOOSE i \in 1..Len(Lowers) : Lowers[i] = c]
    ELSE c

Upper(s) == [i \in 1..Len(s) |-> ToUpperChar(s[i])]

Capitalized(s) == [i \in 1..Len(s) |-> IF i = 1 THEN ToUpperChar(s[i]) ELSE s[i]]

\* The spellings of a name that differ from it in letter case only.
Spellings(n) == {n, Upper(n), Capitalized(n)}

N_unknown == <<"c","h","m","o","d">>

KindNames == UNION {Spellings(n) : n \in CoarseNames \cup FineNames \cup {N_unknown}}

I_empty == <<>>

FilterInputs ==
    {Filters(k, e, i) :
        k \in {NoSet, Some({N_create}), Some({N_remove_file, Upper(N_modify)}),
               Some({N_unknown})},
        e \in {NoSet, Some({X_log}), Some({X_log, X_txt})},
        i \in {<<>>, <<I_foo>>, <<I_sub, I_foo>>, <<I_empty>>}}

E_log == Event(K_CreateFile, <<P_a_b_log>>)
E_txt == Event(K_CreateFile, <<P_a_b_txt>>)
E_hidden == Event(K_ModifyContent, <<P_hidden>>)
E_bad_foo == Event(K_CreateFile, <<P_b_log, P_bad_foo>>)
E_foo_last == Event(K_RemoveFile, <<P_b_log, P_noext, P_foo_log>>)
E_access == Event(K_AccessOpen, <<P_b_log>>)

FilterEvents == Events \cup {E_log, E_txt, E_hidden, E_bad_foo, E_foo_last, E_access}

FilterCalls ==
    {[op |-> "matches", filter |-> f, event |-> e] :
        f \in FilterInputs, e \in FilterEvents}

KindCalls ==
    {[op |-> "event_kind_matches", kind |-> k, kind_str |-> n] :
        k \in EventKinds, n \in KindNames}

\* One call of Filters::matches or of event_kind_matches, its arguments
\* drawn from the sets.
InitFilter ==
    /\ call \in FilterCalls \cup KindCalls
    /\ ret = NoRet
    /\ config = <<>>
    /\ fs = <<>>
    /\ event_tx = "held"
    /\ tasks = <<>>
    /\ execs = <<>>
    /\ nCallbacks = 0
    /\ senders = {}
    /\ chan = <<>>
    /\ loopPc = "recv"
    /\ mainPc = "select"
    /\ routed = {}
    /\ recvLog = <<>>

CallMatches ==
    /\ ret = NoRet
    /\ call.op = "matches"
    /\ ret' = Ret(matches(call.filter, call.event))
    /\ UNCHANGED <<config, fs, event_tx, nCallbacks, senders, chan, loopPc, mainPc, tasks,
                   execs, routed, recvLog, call>>

CallKindMatches ==
    /\ ret = NoRet
    /\ call.op = "event_kind_matches"
    /\ ret' = Ret(event_kind_matches(call.kind, call.kind_str))
    /\ UNCHANGED <<config, fs, event_tx, nCallbacks, senders, chan, loopPc, mainPc, tasks,
                   execs, routed, recvLog, call>>

NextFilter == CallMatches \/ CallKindMatches

SpecFilter == InitFilter /\ [][NextFilter]_vars

\* ------------------------------------------------------------- properties

\* The execute_action tasks process_event spawned for task t and watch w.
ExecsOf(t, w) == {i \in 1..Len(execs) : execs[i].t = t /\ execs[i].w = w}

\* A root as text without its trailing separators.
RECURSIVE StripSlashes(_)
StripSlashes(r) ==
    IF Len(r) > 1 /\ r[Len(r)] = "/" THEN StripSlashes(SubSeq(r, 1, Len(r) - 1))
    ELSE r

\* On the text of two normalized paths: p is r, or r followed by a separator
\* and more.
TextUnder(p, r) ==
    LET b == StripSlashes(r)
    IN \/ p = b
       \/ /\ Len(p) > Len(b)
          /\ SubSeq(p, 1, Len(b)) = b
          /\ (b = <<"/">> \/ p[Len(b) + 1] = "/")

\* C1: for every processed event and every configured watch, recursive or
\* not, process_event found the watch relevant exactly when some path of the
\* event is the watch's resolved root or lies below it by path components; a
\* path that only shares a text prefix with the root does not route.
C1_RoutesByComponents ==
    \A t \in 1..Len(tasks) : \A w \in 1..Len(config) :
        tasks[t].done =>
            ( <<t, w>> \in routed
              <=> /\ expanded_absolute_path(w) # Err
                  /\ \E i \in 1..Len(tasks[t].event.paths) :
                        TextUnder(tasks[t].event.paths[i],
                                  expanded_absolute_path(w)) )

\* C1's case: one processed event that is routed to a non-recursive watch and
\* not to a watch whose root is a mere text prefix of its path.
C1_Witness ==
    \E t \in 1..Len(tasks) : \E w1, w2 \in 1..Len(config) :
        /\ tasks[t].done
        /\ <<t, w1>> \notin routed
        /\ expanded_absolute_path(w1) # Err
        /\ \E i \in 1..Len(tasks[t].event.paths) :
              IsPrefixSeq(expanded_absolute_path(w1), tasks[t].event.paths[i])
        /\ <<t, w2>> \in routed
        /\ ~config[w2].recursive

\* Whether the selector of an action, case-folded, is "any" or the primary
\* kind string of the kind.
SelectorFits(action, kind) ==
    \/ to_lowercase(action.event) = N_any
    \/ /\ event_kind_to_primary_string(kind) # None
       /\ to_lowercase(action.event) = event_kind_to_primary_string(kind)

\* The first action of the list whose selector fits the kind; 0: none.
FirstFit(actions, kind) ==
    IF \E i \in 1..Len(actions) : SelectorFits(actions[i], kind)
    THEN CHOOSE i \in 1..Len(actions) :
            /\ SelectorFits(actions[i], kind)
            /\ \A j \in 1..(i - 1) : ~SelectorFits(actions[j], kind)
    ELSE 0

HasCommand(action) == trim(action.command) # <<>>

\* The first action whose selector fits the kind and whose command is not
\* empty after trimming; 0: none.
FirstRunnable(actions, kind) ==
    IF \E i \in 1..Len(actions) : SelectorFits(actions[i], kind) /\ HasCommand(actions[i])
    THEN CHOOSE i \in 1..Len(actions) :
            /\ SelectorFits(actions[i], kind) /\ HasCommand(actions[i])
            /\ \A j \in 1..(i - 1) :
                  ~(SelectorFits(actions[j], kind) /\ HasCommand(actions[j]))
    ELSE 0

\* Whether the event of task t passed routing and filtering for watch w.
Passed(t, w) ==
    /\ <<t, w>> \in routed
    /\ matches(config[w].filter, tasks[t].event)

\* C2, as claimed: every execution dispatched for a watch and an event is of
\* the first action whose selector fits, and of no later one.
C2_FirstSelectorOnly ==
    \A i \in 1..Len(execs) :
        execs[i].a = FirstFit(config[execs[i].w].actions,
                              tasks[execs[i].t].event.kind)

\* C2, amended: for every watch and every event that passed routing and
\* filtering, the executions dispatched are of at most one action, and that
\* action is the first in configured order whose selector, case-folded, is
\* "any" or the primary kind string and whose command is not empty after
\* trimming; an event whose kind has no primary kind string can only select
\* an "any" action.
C2_FirstRunnableOnly ==
    \A t \in 1..Len(tasks) : \A w \in 1..Len(config) :
        tasks[t].done =>
            LET ev == tasks[t].event
                sel == FirstRunnable(config[w].actions, ev.kind)
            IN /\ \A i \in ExecsOf(t, w) :
                    /\ Passed(t, w)
                    /\ execs[i].a = sel
                    /\ event_kind_to_primary_string(ev.kind) = None
                          => to_lowercase(config[w].actions[execs[i].a].event) = N_any
               /\ (Passed(t, w) /\ sel # 0 /\ ev.paths # <<>>)
                     => ExecsOf(t, w) # {}

\* C2's case: a file-creation event selected the first of two actions that
\* both fit it, the first one a create_file selector written with capitals.
C2_Witness ==
    \E i \in 1..Len(execs) :
        LET acts == config[execs[i].w].actions
        IN /\ tasks[execs[i].t].event.kind = K_CreateFile
           /\ execs[i].a = 1
           /\ Len(acts) >= 2
           /\ acts[1].event # N_create_file
           /\ to_lowercase(acts[1].event) = N_create_file
           /\ to_lowercase(acts[2].event) = N_any
           /\ HasCommand(acts[2])

\* C3, as claimed: when the first action whose selector fits has an empty
\* command, nothing is executed for that watch and event.
C3_EmptyCommandStopsScan ==
    \A t \in 1..Len(tasks) : \A w \in 1..Len(config) :
        LET f == FirstFit(config[w].actions, tasks[t].event.kind)
        IN (tasks[t].done /\ Passed(t, w) /\ f # 0 /\ ~HasCommand(config[w].actions[f]))
              => ExecsOf(t, w) = {}

\* C3, amended: when the first action whose selector fits has an empty
\* command, that action is skipped and the scan goes on: no action with an
\* empty command is ever executed, and commands are executed for that watch
\* and event exactly when a later action fits and has a command.
C3_EmptyCommandSkipped ==
    \A t \in 1..Len(tasks) : \A w \in 1..Len(config) :
        LET acts == config[w].actions
            ev == tasks[t].event
            f == FirstFit(acts, ev.kind)
        IN (tasks[t].done /\ Passed(t, w) /\ f # 0 /\ ~HasCommand(acts[f]))
              => /\ \A i \in ExecsOf(t, w) :
                       execs[i].a > f /\ HasCommand(acts[execs[i].a])
                 /\ ExecsOf(t, w) # {}
                       <=> /\ ev.paths # <<>>
                           /\ \E j \in (f + 1)..Len(acts) :
                                 SelectorFits(acts[j], ev.kind) /\ HasCommand(acts[j])

\* C3's case: the first fitting action of one watch had an empty command and
\* a later one was executed, while for another watch every fitting action
\* had an empty command and nothing was executed.
C3_Witness ==
    \E t \in 1..Len(tasks) : \E w1, w2 \in 1..Len(config) :
        LET f1 == FirstFit(config[w1].actions, tasks[t].event.kind)
            f2 == FirstFit(config[w2].actions, tasks[t].event.kind)
        IN /\ tasks[t].done /\ Passed(t, w1) /\ Passed(t, w2)
           /\ f1 # 0 /\ ~HasCommand(config[w1].actions[f1])
           /\ \E i \in ExecsOf(t, w1) : execs[i].a > f1
           /\ f2 # 0 /\ ~HasCommand(config[w2].actions[f2])
           /\ ExecsOf(t, w2) = {}

\* C4: when an action is selected for a watch and an event, exactly one
\* execution is dispatched for each path of the event, with the action's
\* template and that path; every execution hands at most one command to the
\* shell, the template rendered for its path, and none after it ended. With
\* one non-recursive watch on /tmp/watched and the action any / "touch
\* {}.done", a creation event at /tmp/watched/a.txt leads to one execution,
\* whose command is "touch /tmp/watched/a.txt.done".
C4_OneExecutionPerPath ==
    /\ \A t \in 1..Len(tasks) : \A w \in 1..Len(config) :
          (tasks[t].done /\ ExecsOf(t, w) # {}) =>
              \A pi \in 1..Len(tasks[t].event.paths) :
                  /\ Cardinality({i \in ExecsOf(t, w) : execs[i].pi = pi}) = 1
                  /\ \A i \in ExecsOf(t, w) :
                        execs[i].pi = pi =>
                            /\ execs[i].path = tasks[t].event.paths[pi]
                            /\ execs[i].command_template
                                  = config[w].actions[execs[i].a].command
    /\ \A i \in 1..Len(execs) :
          /\ execs[i].pi \in 1..Len(tasks[execs[i].t].event.paths)
          /\ execs[i].spawns <= 1
          /\ execs[i].st \in {"running", "ok"} => execs[i].spawns = 1
          /\ execs[i].spawns = 1 =>
                execs[i].command = replace(execs[i].command_template, Placeholder,
                                           execs[i].path)
    /\ \A t \in 1..Len(tasks) :
          (config = S_touch.config /\ fs = S_touch.fs
             /\ tasks[t].done /\ tasks[t].event = E_create_a)
          => /\ Cardinality({i \in 1..Len(execs) : execs[i].t = t}) = 1
             /\ \A i \in 1..Len(execs) :
                   (execs[i].t = t /\ execs[i].st # "queued")
                      => execs[i].spawns = 1 /\ execs[i].command = C_touch_a_txt_done

\* C4's case: the scenario ran, and its one subprocess ended.
C4_Witness ==
    /\ config = S_touch.config
    /\ Len(tasks) = 1 /\ tasks[1].done /\ tasks[1].event = E_create_a
    /\ Len(execs) = 1
    /\ execs[1].st = "ok"
    /\ execs[1].command = C_touch_a_txt_done

\* C5: a step in which one execution fails (a path that is not text, an
\* empty command, a spawn failure, a failing exit status) changes that
\* execution alone: every other execution, of the same event or of another,
\* every process_event task, the channel, the senders, the batch loop and
\* main are left exactly as they were.
C5_FailureIsolated ==
    [][ \A i \in 1..Len(execs) :
            (execs[i].st # "failed" /\ execs'[i].st = "failed")
            => /\ Len(execs') = Len(execs)
               /\ \A k \in 1..Len(execs) : k # i => execs'[k] = execs[k]
               /\ UNCHANGED <<tasks, chan, senders, loopPc, mainPc, recvLog,
                              nCallbacks, routed>> ]_vars

\* C5's case: an execution failed on a path that is not text, a sibling of
\* it succeeded, an execution of another event succeeded, and the loop is
\* still receiving.
C5_Witness ==
    \E i, k, m \in 1..Len(execs) :
        /\ execs[i].st = "failed" /\ execs[i].err = "PathNonUtf8"
        /\ k # i /\ execs[k].t = execs[i].t /\ execs[k].st = "ok"
        /\ execs[m].t # execs[i].t /\ execs[m].st = "ok"
        /\ loopPc = "recv"
        /\ mainPc = "select"

\* C6: the step in which the loop takes an error batch off the channel
\* spawns no process_event task and no execution, and leaves the loop
\* receiving, so that a batch sent later is received and its events are
\* dispatched.
C6_ErrorBatchDiscarded ==
    [][ (recvLog' # recvLog /\ ~Head(chan).batch.ok)
        => /\ tasks' = tasks
           /\ execs' = execs
           /\ loopPc' = "recv"
           /\ chan' = Tail(chan)
           /\ mainPc' = mainPc ]_vars

\* C6's case: the loop received an error batch, then a batch of events, and
\* an execution dispatched for the later batch ended.
C6_Witness ==
    /\ Len(recvLog) = 2
    /\ ~recvLog[1].batch.ok /\ recvLog[1].batch.errors = <<"device busy">>
    /\ recvLog[2].batch.ok
    /\ tasks # <<>> /\ tasks[1].done
    /\ \E i \in 1..Len(execs) : execs[i].st = "ok"
    /\ loopPc = "recv"

\* Whether the bytes of pattern occur in the bytes of path.
ContainsBytes(path, pattern) ==
    \E i \in 1..(Len(path) + 1) :
        /\ i + Len(pattern) - 1 <= Len(path)
        /\ SubSeq(path, i, i + Len(pattern) - 1) = pattern

\* C7: Filters::matches rejects every event in which at least one path
\* contains a configured ignore pattern as a substring, whatever the other
\* filter fields, the kind and the other paths are.
C7_IgnorePatternRejects ==
    (ret.done /\ call.op = "matches")
    => ( (\E i \in 1..Len(call.event.paths) :
             \E j \in 1..Len(call.filter.ignore_patterns) :
                ContainsBytes(call.event.paths[i], call.filter.ignore_patterns[j]))
         => ret.value = FALSE )

\* The file name of a normalized path as text: what follows its last
\* separator.
NameOf(p) ==
    LET slashes == {i \in 1..Len(p) : p[i] = "/"}
        last == IF slashes = {} THEN 0
                ELSE CHOOSE i \in slashes : \A j \in slashes : j <= i
    IN SubSeq(p, last + 1, Len(p))

\* Whether the name of p has an extension, and that extension with a leading
\* dot is in the set.
HasExtensionIn(p, set) ==
    LET name == NameOf(p)
        dots == {i \in 1..Len(name) : name[i] = "."}
        d == CHOOSE i \in dots : \A j \in dots : j <= i
    IN /\ dots # {}
       /\ name # <<".", ".">>
       /\ d > 1
       /\ (<<".">> \o SubSeq(name, d + 1, Len(name))) \in set

\* C8: with an extensions set configured, Filters::matches keeps an event
\* only if every path of it has an extension that, with a leading dot, is in
\* the set. With extensions = {".log"} and nothing else configured, the event
\* of /a/b.txt is rejected and the event of /a/b.log is kept.
C8_ExtensionFilter ==
    (ret.done /\ call.op = "matches")
    => /\ (call.filter.extensions.some /\ ret.value)
          => \A i \in 1..Len(call.event.paths) :
                HasExtensionIn(call.event.paths[i], call.filter.extensions.set)
       /\ call.filter = Filters(NoSet, Some({X_log}), <<>>)
          => /\ call.event.paths = <<P_a_b_txt>> => ~ret.value
             /\ call.event.paths = <<P_a_b_log>> => ret.value

\* C8's case: extensions = {".log"} alone kept the event of /a/b.log.
C8_Witness ==
    /\ ret.done
    /\ call.op = "matches"
    /\ call.filter = Filters(NoSet, Some({X_log}), <<>>)
    /\ call.event.paths = <<P_a_b_log>>
    /\ ret.value

\* C9: a spelling of a name that differs from it in letter case only matches
\* exactly the event kinds the lower-case spelling matches.
C9_NamesCaseInsensitive ==
    (ret.done /\ call.op = "event_kind_matches")
    => ret.value = event_kind_matches(call.kind, to_lowercase(call.kind_str))

\* How many times the placeholder occurs in s, counted left to right without
\* overlap.
RECURSIVE CountPlaceholders(_)
CountPlaceholders(s) ==
    IF Len(s) < 2 THEN 0
    ELSE IF s[1] = "{" /\ s[2] = "}" THEN 1 + CountPlaceholders(SubSeq(s, 3, Len(s)))
    ELSE CountPlaceholders(Tail(s))

\* C10: once execute_action has got past its first steps on a path that is
\* text, its command is the template with every placeholder replaced by the
\* path: it is longer than the template by the length of the path less the
\* placeholder's, for every placeholder, and holds no placeholder when the
\* path has no brace; "echo {}" and /tmp/x give "echo /tmp/x". A command
\* that is empty after trimming ends the call with EmptyCommand and nothing
\* spawned.
C10_PlaceholderAndEmptyCommand ==
    \A i \in 1..Len(execs) :
        LET e == execs[i]
        IN (e.st # "queued" /\ BadByte \notin Range(e.path))
           => /\ Len(e.command) = Len(e.command_template)
                    + CountPlaceholders(e.command_template) * (Len(e.path) - 2)
              /\ (e.path # <<>> /\ Range(e.path) \cap {"{", "}"} = {})
                    => ~contains(e.command, Placeholder)
              /\ (e.command_template = T_echo /\ e.path = P_tmp_x)
                    => e.command = C_echo_tmp_x
              /\ trim(e.command) = <<>>
                    <=> (e.st = "failed" /\ e.err = "EmptyCommand")
              /\ e.err = "EmptyCommand" => e.spawns = 0

\* C10's case: "echo {}" ran for /tmp/x.
C10_Witness ==
    \E i \in 1..Len(execs) :
        /\ execs[i].command_template = T_echo
        /\ execs[i].path = P_tmp_x
        /\ execs[i].st = "ok"
        /\ execs[i].spawns = 1
        /\ execs[i].command = C_echo_tmp_x

\* C11: execute_action returns success exactly when its subprocess was
\* spawned and ended with a success status; a failed spawn and a failing
\* exit status give ActionExec with the substituted command, not the
\* template; a path that is not text gives PathNonUtf8 whatever the template
\* is, an empty one included, with nothing spawned.
C11_ResultOfExecution ==
    \A i \in 1..Len(execs) :
        LET e == execs[i]
        IN /\ e.st = "ok" <=> (e.spawns = 1 /\ e.status = "success")
           /\ e.status = "failure" => (e.st = "failed" /\ e.err = "ActionExec")
           /\ (e.st = "failed" /\ e.spawns = 1) => e.err = "ActionExec"
           /\ e.err = "ActionExec"
                 => /\ e.st = "failed"
                    /\ e.spawns = 1
                    /\ e.command = replace(e.command_template, Placeholder, e.path)
                    /\ CountPlaceholders(e.command_template) > 0
                          => e.command # e.command_template
           /\ (BadByte \in Range(e.path) /\ e.st # "queued")
                 => e.st = "failed" /\ e.err = "PathNonUtf8" /\ e.spawns = 0
           /\ e.err = "PathNonUtf8" => BadByte \in Range(e.path)

\* C11's case: a subprocess was spawned for a template with a placeholder
\* and ended with a failing status.
C11_Witness ==
    \E i \in 1..Len(execs) :
        /\ execs[i].command_template = T_echo
        /\ execs[i].path = P_tmp_x
        /\ execs[i].status = "failure"
        /\ execs[i].err = "ActionExec"
        /\ execs[i].command = C_echo_tmp_x

\* C12: the batch loop waits for no event's processing and for no action
\* subprocess: whenever a batch is in the channel the loop can take it,
\* whatever the tasks and executions of earlier events and batches are
\* doing.
C12_LoopNeverWaits ==
    (Running /\ loopPc = "recv" /\ chan # <<>>) => ENABLED Recv

\* C12's case: the second batch was taken and its event dispatched while an
\* execution of the first batch's event is still running and another has
\* not started.
C12_Witness ==
    /\ Len(recvLog) = 2
    /\ Len(tasks) = 2
    /\ tasks[2].done
    /\ \E i \in 1..Len(execs) : execs[i].t = 1 /\ execs[i].st = "running"
    /\ \E i \in 1..Len(execs) : execs[i].t = 2

\* C13: the channel never holds more than its capacity, the debouncer
\* callback cannot go on while the channel is full, and so the batches
\* handed to the callback and not yet taken by the loop never number more
\* than the capacity.
C13_BacklogBounded ==
    /\ Len(chan) <= ChannelCapacity
    /\ Len(chan) = ChannelCapacity => ~ENABLED DebouncerCallback(B_err)
    /\ Len(chan) + Cardinality(senders) <= ChannelCapacity

C15_ShutdownReached ==
    /\ [](loopPc = "finished" => (event_tx = "dropped" /\ senders = {}))
    /\ (mainPc # "select" \/ (event_tx = "dropped" /\ senders = {}))
          ~> (mainPc = "exited")

\* C15's case: the loop ended, main has returned, and an execution is still
\* running.
C15_Witness ==
    /\ mainPc = "exited"
    /\ loopPc = "finished"
    /\ \E i \in 1..Len(execs) : execs[i].st = "running"

\* C16: a watch whose setup failed is passed over while the others are
\* registered, and none of its actions is ever executed for an event the
\* registered watches deliver.
C16_FailedWatchSkipped ==
    /\ \A w \in 1..Len(config) : w \in Registered <=> setup_watch(w) # Err
    /\ \A i \in 1..Len(execs) :
          Delivered(tasks[execs[i].t].event) => execs[i].w \in Registered

\* C17: Filters::matches returns, for every filter and event, the
\* conjunction of three checks made independently of each other: the kind
\* check (event_kinds unset, or some configured name matches the kind), the
\* ignore check (no path contains any ignore pattern) and the extension
\* check (extensions unset, or every path has an extension in the set); a
\* filter with no field set keeps every event.
C17_ThreeIndependentChecks ==
    (ret.done /\ call.op = "matches")
    => LET f == call.filter
           paths == call.event.paths
           kindOk == \/ ~f.event_kinds.some
                     \/ \E k \in f.event_kinds.set :
                           event_kind_matches(call.event.kind, k)
           ignoreOk == \A i \in 1..Len(paths) :
                          \A j \in 1..Len(f.ignore_patterns) :
                             ~ContainsBytes(paths[i], f.ignore_patterns[j])
           extOk == \/ ~f.extensions.some
                    \/ \A i \in 1..Len(paths) :
                          HasExtensionIn(paths[i], f.extensions.set)
       IN /\ ret.value = (kindOk /\ ignoreOk /\ extOk)
          /\ f = NoFilter => ret.value

\* C18: within one event the watches are evaluated in configured order and
\* each by itself: a watch dispatches executions for the event exactly when
\* the event is under its root, passes its filter and selects one of its
\* actions, whatever the watches before it did, and the executions of one
\* event are listed watch by watch in configured order.
C18_WatchesIndependent ==
    \A t \in 1..Len(tasks) :
        tasks[t].done =>
            /\ \A w \in 1..Len(config) :
                  ExecsOf(t, w) # {}
                     <=> /\ Passed(t, w)
                         /\ FirstRunnable(config[w].actions, tasks[t].event.kind) # 0
                         /\ tasks[t].event.paths # <<>>
            /\ \A i, j \in 1..Len(execs) :
                  (i < j /\ execs[i].t = t /\ execs[j].t = t)
                     => execs[i].w <= execs[j].w

\* C18's case: the first watch the event is under rejected it by its
\* filter, and two later watches each dispatched their selected action.
C18_Witness ==
    \E t \in 1..Len(tasks) : \E w1, w2, w3 \in 1..Len(config) :
        /\ tasks[t].done
        /\ w1 < w2 /\ w2 < w3
        /\ <<t, w1>> \in routed /\ ~Passed(t, w1) /\ ExecsOf(t, w1) = {}
        /\ ExecsOf(t, w2) # {}
        /\ ExecsOf(t, w3) # {}

\* The events of the batches of log from entry i on, batch after batch.
RECURSIVE EventsOf(_, _)
EventsOf(log, i) ==
    IF i > Len(log) THEN <<>>
    ELSE (IF log[i].batch.ok THEN log[i].batch.events ELSE <<>>)
         \o EventsOf(log, i + 1)

\* C19: the loop receives the batches in the order in which the debouncer
\* callback was called with them, and spawns the process_event tasks batch
\* after batch, the events of one batch in their order within it.
C19_CallbackOrderKept ==
    /\ \A i, j \in 1..Len(recvLog) : i < j => recvLog[i].id < recvLog[j].id
    /\ [t \in 1..Len(tasks) |-> tasks[t].event] = EventsOf(recvLog, 1)

====
